---------------------------- MODULE Spec2Model ----------------------------
(***************************************************************************)
(* Model of the TT_rum_model repository (src/run.py, src/rum_model/*.py):  *)
(* the delay-distribution builder, the loader/aligner, the convolution     *)
(* engine, the transmission-event probability model and the scenario loop. *)
(*                                                                         *)
(* Numbers.  A Python float is modelled by an exact rational <<n, d>> in   *)
(* lowest terms with d > 0, or by NaN == <<0, 0>>.  Rounding error is not  *)
(* modelled; the result of 0/0 (NaN) and its propagation are.              *)
(*                                                                         *)
(* Columns.  A numeric column (numpy array or pandas Series) is a record   *)
(* [num, den]: entry i has the value num[i]/den, in lowest terms over the  *)
(* whole column.  den = 0 is a column whose every entry is NaN.  All        *)
(* frequencies of the program are non-negative, so a column sums to zero   *)
(* only when every entry is zero, and dividing it by its own sum then      *)
(* turns every entry into 0/0 = NaN: no column mixes NaN and numbers.      *)
(*                                                                         *)
(* DataFrames.  A DataFrame with columns 'delay' and 'frequency' is a      *)
(* record [delay, frequency], delay a sequence of integers (hours) and     *)
(* frequency a column of the same length.  DataFrames that a callee can    *)
(* reach through a reference live in `heap`; df.copy() allocates.          *)
(*                                                                         *)
(* Scale.  The program works on hourly axes of about 2000 points.  The     *)
(* model keeps the structure and shrinks the constants: MaxCoord stands    *)
(* for 40*24, HeCut for 2*24, AshLo and AshHi for 5*24 and 10*24.          *)
(***************************************************************************)
EXTENDS Integers, Sequences, FiniteSets, TLC

VARIABLES
    pc,                      \* position of run.main / of the function call
    config,                  \* model_settings: option and the two files
    scenarios_df,            \* rows of the scenarios file
    heap,                    \* DataFrame objects, by reference
    time_distributions_dict, \* the bundle: name -> reference into heap
    built,                   \* the bundle's DataFrames as first built
    index,                   \* number of scenario rows already evaluated
    output_df,               \* result records appended so far
    args,                    \* arguments of a direct function call
    ret                      \* value returned by a direct function call

vars == <<pc, config, scenarios_df, heap, time_distributions_dict, built,
          index, output_df, args, ret>>

-----------------------------------------------------------------------------
(* Bounds of the model *)

\* stands for max_coord*24 = 40*24 hours, the extent of the gamma densities
MaxCoord == 3
\* stands for 2*24 hours, the earliest pre-symptomatic transmission ('he')
HeCut == 1
\* stand for 5*24 and 10*24 hours, the extent of the Ashcroft curve
AshLo == 1
AshHi == 2
\* largest number of rows of a scenarios file
MaxScenarios == 2

\* min_delay_bound passed to pad_with_zeros: 40*24, the same extent
MinDelayBound == MaxCoord
\* the turnaround files may reach one step beyond the minimum half width
MaxExtent == MinDelayBound + 1

-----------------------------------------------------------------------------
(* Floats as exact rationals, with NaN *)

NaN == <<0, 0>>
Zero == <<0, 1>>
One == <<1, 1>>
Half == <<1, 2>>

IsNaN(x) == x[2] = 0

Abs(n) == IF n < 0 THEN -n ELSE n

Max2(a, b) == IF a >= b THEN a ELSE b

Min2(a, b) == IF a <= b THEN a ELSE b

RECURSIVE GCD(_, _)
GCD(a, b) == IF b = 0 THEN a ELSE GCD(b, a % b)

Rat(n, d) ==
    IF d = 0 THEN NaN
    ELSE LET g == GCD(Abs(n), d) IN <<n \div g, d \div g>>

\* x[1]/x[2] + sign * y[1]/y[2] over the least common denominator
RSum(x, y, sign, g) ==
    Rat(x[1] * (y[2] \div g) + sign * y[1] * (x[2] \div g),
        x[2] * (y[2] \div g))

RAdd(x, y) == IF IsNaN(x) \/ IsNaN(y) THEN NaN
              ELSE RSum(x, y, 1, GCD(x[2], y[2]))

RSub(x, y) == IF IsNaN(x) \/ IsNaN(y) THEN NaN
              ELSE RSum(x, y, -1, GCD(x[2], y[2]))

\* the product, cancelling across before multiplying
RProd(x, y, g1, g2) ==
    Rat((x[1] \div g1) * (y[1] \div g2), (x[2] \div g2) * (y[2] \div g1))

RMul(x, y) == IF IsNaN(x) \/ IsNaN(y) THEN NaN
              ELSE IF x[1] = 0 \/ y[1] = 0 THEN Zero
              ELSE RProd(x, y, GCD(Abs(x[1]), y[2]), GCD(Abs(y[1]), x[2]))

\* the sign of x - y for two numbers (not NaN)
RCompare(x, y, g) == x[1] * (y[2] \div g) - y[1] * (x[2] \div g)

\* comparisons with NaN are false, as in IEEE arithmetic
RLeq(x, y) == ~IsNaN(x) /\ ~IsNaN(y) /\ RCompare(x, y, GCD(x[2], y[2])) <= 0

RLt(x, y) == ~IsNaN(x) /\ ~IsNaN(y) /\ RCompare(x, y, GCD(x[2], y[2])) < 0

-----------------------------------------------------------------------------
(* Sequences of integers *)

\* the sequence s as an explicit tuple: each entry is computed once
Tuple(s) == s \o <<>>

RECURSIVE SumTo(_, _)
SumTo(s, n) == IF n = 0 THEN 0 ELSE s[n] + SumTo(s, n - 1)

SumSeq(s) == SumTo(s, Len(s))

RECURSIVE GCDTo(_, _, _)
GCDTo(s, n, g) == IF n = 0 THEN g ELSE GCDTo(s, n - 1, GCD(g, s[n]))

Reverse(s) == Tuple([i \in 1..Len(s) |-> s[Len(s) + 1 - i]])

\* np.arange(lo, hi, 1): lo, lo+1, ..., hi-1
arange(lo, hi) == Tuple([i \in 1..Max2(hi - lo, 0) |-> lo + i - 1])

SeqMin(s) == CHOOSE m \in {s[i] : i \in 1..Len(s)} :
                 \A i \in 1..Len(s) : m <= s[i]

SeqMax(s) == CHOOSE m \in {s[i] : i \in 1..Len(s)} :
                 \A i \in 1..Len(s) : m >= s[i]

-----------------------------------------------------------------------------
(* Columns *)

NaNColumn(n) == [num |-> Tuple([i \in 1..n |-> 0]), den |-> 0]

\* the column with the values num[i]/den, in lowest terms
Column(num, den) ==
    IF den = 0 THEN NaNColumn(Len(num))
    ELSE LET g == GCDTo(num, Len(num), den)
         IN [num |-> Tuple([i \in 1..Len(num) |-> num[i] \div g]),
             den |-> den \div g]

ColLen(col) == Len(col.num)

\* numpy's ndarray.sum(): NaN propagates
np_sum(col) == IF col.den = 0 THEN NaN ELSE Rat(SumSeq(col.num), col.den)

\* pandas' Series.sum(): skipna=True, an all-NaN or empty Series sums to 0.0
pd_sum(col) == IF col.den = 0 THEN Zero ELSE Rat(SumSeq(col.num), col.den)

\* col / s for a scalar s.  The divisor is always the column's own sum, so
\* it is zero only when every entry is zero, and every entry becomes NaN.
col_scale(col, s, g) ==
    Column(Tuple([i \in 1..ColLen(col) |-> col.num[i] * (s[2] \div g)]),
           (col.den \div g) * s[1])

col_div(col, s) ==
    IF col.den = 0 \/ IsNaN(s) \/ s[1] = 0 THEN NaNColumn(ColLen(col))
    ELSE col_scale(col, s, GCD(col.den, s[2]))

\* col[mask] = 0.  A NaN column that is zeroed in part would mix NaN and 0;
\* every caller renormalises right after, which makes each entry NaN again
\* (0/0 and NaN/0), so the column is kept all-NaN.
col_zero_where(col, mask) ==
    IF col.den = 0
    THEN IF \A i \in 1..ColLen(col) : mask[i]
         THEN Column(Tuple([i \in 1..ColLen(col) |-> 0]), 1)
         ELSE col
    ELSE Column(Tuple([i \in 1..ColLen(col) |->
                          IF mask[i] THEN 0 ELSE col.num[i]]), col.den)

\* col[::-1]
col_reverse(col) == [num |-> Reverse(col.num), den |-> col.den]

\* pandas' col[mask].sum()
pd_sum_where(col, mask) ==
    IF col.den = 0 THEN Zero
    ELSE Rat(SumSeq([i \in 1..ColLen(col) |->
                        IF mask[i] THEN col.num[i] ELSE 0]), col.den)

\* the value of entry i as a float
ColAt(col, i) == Rat(col.num[i], col.den)

-----------------------------------------------------------------------------
(* np.convolve(a, v, 'same') *)

\* numpy swaps the operands so that the first is the longer one, computes the
\* full convolution (length n1 + n2 - 1) and returns its n1 = max(n1, n2)
\* central entries, starting at full index (n2 - 1) \div 2 (0-based).
conv_offset(a, v) == (Min2(Len(a), Len(v)) - 1) \div 2

\* (faulty variant) np.correlate: the second operand is not reversed
correlate_same_num(a, v) ==
    LET off == conv_offset(a, v)
    IN Tuple([i \in 1..Max2(Len(a), Len(v)) |->
           SumSeq([p \in 1..Len(a) |->
               LET q == i + off - p + 1
               IN IF q >= 1 /\ q <= Len(v) THEN a[p] * v[Len(v) + 1 - q]
                  ELSE 0])])

conv_same_num(a, v) ==
    LET off == conv_offset(a, v)
    IN Tuple([i \in 1..Max2(Len(a), Len(v)) |->
           SumSeq([p \in 1..Len(a) |->
               LET q == i + off - p + 1
               IN IF q >= 1 /\ q <= Len(v) THEN a[p] * v[q] ELSE 0])])

\* every output entry sums at least one product, so a NaN operand makes
\* every entry NaN
np_convolve_same(a, v) ==
    IF a.den = 0 \/ v.den = 0
    THEN NaNColumn(Max2(ColLen(a), ColLen(v)))
    ELSE Column(conv_same_num(a.num, v.num), a.den * v.den)

-----------------------------------------------------------------------------
(* DataFrames *)

DataFrame(delay, frequency) == [delay |-> delay, frequency |-> frequency]

\* delay.merge(df, on = 'delay', how = 'left').fillna(0): one row per delay
\* of the left axis (delays are unique in df), the frequency of df where df
\* has the delay and 0 where it has not; fillna also turns NaN into 0.
merge_left_fillna(delay, df) ==
    LET hit(d) == {i \in 1..Len(df.delay) : df.delay[i] = d}
        num == Tuple([k \in 1..Len(delay) |->
                   IF hit(delay[k]) = {} \/ df.frequency.den = 0 THEN 0
                   ELSE df.frequency.num[CHOOSE i \in hit(delay[k]) : TRUE]])
    IN DataFrame(delay, Column(num, Max2(df.frequency.den, 1)))

\* the frequency of df at delay d, 0 when df has no row for d
FreqAt(df, d) ==
    LET hit == {i \in 1..Len(df.delay) : df.delay[i] = d}
    IN IF hit = {} THEN Zero ELSE ColAt(df.frequency, CHOOSE i \in hit : TRUE)

TotalFrequency(df) == np_sum(df.frequency)

-----------------------------------------------------------------------------
(* freq /= freq.sum() *)

\* with numpy's sum (an ndarray)
np_normalise(col) == col_div(col, np_sum(col))

\* with pandas' sum (a Series)
pd_normalise(col) == col_div(col, pd_sum(col))

-----------------------------------------------------------------------------
(* rum_model/utils.py *)

\* The cubic interpolation of the raw table onto x_new = ceil(min)..floor(max)-1
\* is an input of the model (file.delay, file.freq_new: non-negative values
\* with a positive sum); the two normalisations are the code's.
process_TT_e2e_file(file) ==
    DataFrame(file.delay, pd_normalise(np_normalise(Column(file.freq_new, 1))))

\* (faulty variant) the bound looks at the largest delay only, not at the smallest
pad_delay_bound_one_sided(df_list, min_delay_bound) ==
    Max2(SeqMax(Tuple([k \in 1..Len(df_list) |-> SeqMax(df_list[k].delay)])),
         min_delay_bound)

\* lines 92-94: max(max_delay, -min_delay, min_delay_bound)
pad_delay_bound(df_list, min_delay_bound) ==
    Max2(Max2(SeqMax(Tuple([k \in 1..Len(df_list) |-> SeqMax(df_list[k].delay)])),
              -SeqMin(Tuple([k \in 1..Len(df_list) |-> SeqMin(df_list[k].delay)]))),
         min_delay_bound)

pad_onto(df_list, delay) ==
    Tuple([k \in 1..Len(df_list) |-> merge_left_fillna(delay, df_list[k])])

\* (faulty variant) an axis that reaches one step further below zero than above
lopsided_axis(delay_bound) == arange(-delay_bound - 1, delay_bound + 1)

\* np.arange(-delay_bound, delay_bound + 1, 1)
symmetric_axis(delay_bound) == arange(-delay_bound, delay_bound + 1)

pad_with_zeros(df_list, min_delay_bound) ==
    pad_onto(df_list, symmetric_axis(pad_delay_bound(df_list, min_delay_bound)))

-----------------------------------------------------------------------------
(* rum_model/parameters.py: the distribution builder *)

\* scipy's gamma density sampled on 0..max_coord: 0 at x = 0 (shape > 1),
\* positive at every x > 0, rising to the mode and falling after it.  The
\* table keeps that pattern with small integers.
dgamma(x, mode) ==
    Tuple([i \in 1..Len(x) |->
        IF x[i] <= 0 THEN 0
        ELSE IF x[i] <= mode THEN x[i]
        ELSE Max2(2 * mode - x[i], 1)])

\* the modes of the two densities, (shape - 1)/rate, in model steps
IncubationMode == 1
SerialMode == 2

\* the normalised density on 0..max_coord, left-joined onto the padded axis
gamma_frame(delay_bound, mode) ==
    merge_left_fillna(symmetric_axis(delay_bound),
        DataFrame(arange(0, MaxCoord + 1),
                  np_normalise(Column(dgamma(arange(0, MaxCoord + 1), mode), 1))))

get_incubation_period(delay_bound) == gamma_frame(delay_bound, IncubationMode)

get_serial_interval(delay_bound) == gamma_frame(delay_bound, SerialMode)

\* the cubic interpolation of the 16 published values onto -5*24..10*24:
\* positive, rising to a peak at symptom onset and falling after it
ashcroft_infectiousness(fine_delay) ==
    Tuple([i \in 1..Len(fine_delay) |->
        1 + Min2(fine_delay[i] + AshLo, AshHi - fine_delay[i])])

\* a raised exception, in place of a returned value: its type and the names
\* its message mentions ("local variable 'symptom_to_onward_data' referenced
\* before assignment")
UnboundLocalError ==
    [raised |-> "UnboundLocalError", mentions |-> {"symptom_to_onward_data"}]

Raised(x) == "raised" \in DOMAIN x

\* pd.DataFrame({'delay': a Series, 'frequency': an ndarray}): the index is
\* the Series', and an array of another length raises ValueError ("array
\* length ... does not match index length ...")
ValueError ==
    [raised |-> "ValueError", mentions |-> {"array length", "index length"}]

pd_DataFrame(delay, frequency) ==
    IF Len(delay) # ColLen(frequency) THEN ValueError
    ELSE [delay |-> delay, frequency |-> frequency]

\* (faulty variant) the frequencies below the bound are zeroed and the rest is kept
\* as it is
zero_below_only(df, bound) ==
    DataFrame(df.delay,
        col_zero_where(df.frequency,
            Tuple([i \in 1..Len(df.delay) |-> df.delay[i] < bound])))

\* df.loc[df['delay'] < bound, 'frequency'] = 0, then the renormalisation
zero_below_and_renormalise(df, bound) ==
    DataFrame(df.delay,
        pd_normalise(col_zero_where(df.frequency,
            Tuple([i \in 1..Len(df.delay) |-> df.delay[i] < bound]))))

\* the 'he' branch before its cut: serial interval minus incubation period
he_difference(serial_interval_vector, incubation_period_vector) ==
    DataFrame(serial_interval_vector.delay,
        np_normalise(np_convolve_same(serial_interval_vector.frequency,
            col_reverse(incubation_period_vector.frequency))))

\* the 'he' branch, given the two gamma frames
he_symptom_to_onward(serial_interval_vector, incubation_period_vector) ==
    zero_below_and_renormalise(
        he_difference(serial_interval_vector, incubation_period_vector),
        -HeCut)

\* the 'ashcroft' branch
ashcroft_symptom_to_onward(delay_bound) ==
    merge_left_fillna(symmetric_axis(delay_bound),
        DataFrame(arange(-AshLo, AshHi + 1),
            pd_normalise(Column(
                ashcroft_infectiousness(arange(-AshLo, AshHi + 1)), 1))))

\* with any other option no branch assigns symptom_to_onward_data, and the
\* return statement raises
get_symptom_to_onward_vector(delay_bound, option) ==
    IF option = "he"
    THEN he_symptom_to_onward(get_serial_interval(delay_bound),
                              get_incubation_period(delay_bound))
    ELSE IF option = "ashcroft" THEN ashcroft_symptom_to_onward(delay_bound)
    ELSE UnboundLocalError

-----------------------------------------------------------------------------
(* rum_model/parameters.py: the convolution engine *)

get_time_to_tertiary_infection(secondary_symptoms_to_tertiary, symptoms_to_symptoms) ==
    pd_DataFrame(secondary_symptoms_to_tertiary.delay,
                 np_convolve_same(secondary_symptoms_to_tertiary.frequency,
                                  symptoms_to_symptoms.frequency))

\* lines 309-310: the difference frame
contact_diff_df(time_to_tertiary_infection, total_time_to_contact) ==
    pd_DataFrame(time_to_tertiary_infection.delay,
        np_convolve_same(time_to_tertiary_infection.frequency,
                         col_reverse(total_time_to_contact.frequency)))

\* diff_df[diff_df['delay'] > 0]['frequency'].sum(); an exception raised
\* while diff_df is built leaves the function
positive_delay_mass(diff_df) ==
    IF Raised(diff_df) THEN diff_df
    ELSE pd_sum_where(diff_df.frequency,
             Tuple([i \in 1..Len(diff_df.delay) |-> diff_df.delay[i] > 0]))

get_contact_isolation_impact(time_to_tertiary_infection, total_time_to_contact) ==
    positive_delay_mass(
        contact_diff_df(time_to_tertiary_infection, total_time_to_contact))

-----------------------------------------------------------------------------
(* Objects and references *)

\* a new object holding df; its reference is the next free slot of the heap
Alloc(h, df) == [heap |-> Append(h, df), ref |-> Len(h) + 1]

\* (faulty variant) the "copy" is the object itself: no new object is made
df_copy_alias(h, r) == [heap |-> h, ref |-> r]

\* df.copy() (deep): a new object with the same rows
df_copy(h, r) == Alloc(h, h[r])

\* the copies of h[rs[1]], h[rs[2]], ... taken in that order:
\* [heap, refs], refs[i] the reference of the copy of h[rs[i]]
RECURSIVE df_copies(_, _)
prepend_ref(r, cs) == [heap |-> cs.heap, refs |-> <<r>> \o cs.refs]

copy_then_rest(c, rest) == prepend_ref(c.ref, df_copies(c.heap, rest))

df_copies(h, rs) ==
    IF rs = <<>> THEN [heap |-> h, refs |-> <<>>]
    ELSE copy_then_rest(df_copy(h, Head(rs)), Tail(rs))

-----------------------------------------------------------------------------
(* rum_model/parameters.py: the intersection term (step 8) *)

\* (faulty variant) symptom_isolation_success is left out of the product
symptom_and_contact_product_without_symptom(h, symptom_isolation_success, symptomatic_rate, symptomatic_ascertainment_rate, compliance_with_contact_isolation, percentage_notified, conditional_contact_impact) ==
    [ret |-> RMul(RMul(RMul(RMul(symptomatic_rate,
                                 symptomatic_ascertainment_rate),
                            percentage_notified),
                       compliance_with_contact_isolation),
                  conditional_contact_impact),
     heap |-> h,
     conditional_contact_impact |-> conditional_contact_impact]

\* lines 356-364: the product, returned with the heap the call leaves
symptom_and_contact_product(h, symptom_isolation_success, symptomatic_rate, symptomatic_ascertainment_rate, compliance_with_contact_isolation, percentage_notified, conditional_contact_impact) ==
    [ret |-> RMul(RMul(RMul(RMul(RMul(symptom_isolation_success,
                                      symptomatic_rate),
                                 symptomatic_ascertainment_rate),
                            percentage_notified),
                       compliance_with_contact_isolation),
                  conditional_contact_impact),
     heap |-> h,
     conditional_contact_impact |-> conditional_contact_impact]

\* lines 350-355, on the heap in which the secondary frame is conditioned
conditional_impact(h, r_secondary, r_serial, r_contact) ==
    get_contact_isolation_impact(
        get_time_to_tertiary_infection(h[r_secondary], h[r_serial]),
        h[r_contact])

\* lines 346-348 filter and renormalise the object h[r_secondary] in place
condition_in_place(h, r_secondary) ==
    [h EXCEPT ![r_secondary] = zero_below_and_renormalise(h[r_secondary], 0)]

symptom_and_contact_on(h, symptom_isolation_success, symptomatic_rate, symptomatic_ascertainment_rate, compliance_with_contact_isolation, percentage_notified, r_secondary, r_serial, r_contact) ==
    symptom_and_contact_product(h, symptom_isolation_success,
        symptomatic_rate, symptomatic_ascertainment_rate,
        compliance_with_contact_isolation, percentage_notified,
        conditional_impact(h, r_secondary, r_serial, r_contact))

get_symptom_and_contact_success(h, symptom_isolation_success, symptomatic_rate, symptomatic_ascertainment_rate, compliance_with_contact_isolation, percentage_notified, r_secondary, r_serial, r_contact) ==
    symptom_and_contact_on(condition_in_place(h, r_secondary),
        symptom_isolation_success, symptomatic_rate,
        symptomatic_ascertainment_rate, compliance_with_contact_isolation,
        percentage_notified, r_secondary, r_serial, r_contact)

-----------------------------------------------------------------------------
(* rum_model/model.py *)

\* lines 56-61
adherence_symptom_isolation_of(row) ==
    RAdd(RMul(RMul(row.symptomatic_rate, row.symptomatic_ascertainment_rate),
              row.compliance_with_symptom_isolation_test),
         RMul(RMul(RSub(One, row.symptomatic_ascertainment_rate),
                   row.symptomatic_rate),
              row.compliance_with_symptom_isolation_no_test))

\* line 63: the mass of the secondary frame at delay >= 0
adherence_symptom_isolation_impact_of(df) ==
    pd_sum_where(df.frequency,
        Tuple([i \in 1..Len(df.delay) |-> df.delay[i] >= 0]))

\* (faulty variant) the adherence factor is left out
symptom_isolation_success_without_adherence(row, adherence_symptom_isolation_impact) ==
    adherence_symptom_isolation_impact

\* line 65
symptom_isolation_success_of(row, adherence_symptom_isolation_impact) ==
    RMul(adherence_symptom_isolation_impact, adherence_symptom_isolation_of(row))

\* line 70
primary_tested_of(row) ==
    RMul(row.symptomatic_rate, row.symptomatic_ascertainment_rate)

\* (faulty variant) percentage_notified is left out
proportion_contacts_reached_all_notified(row) == primary_tested_of(row)

\* line 75
proportion_contacts_reached_of(row) ==
    RMul(primary_tested_of(row), row.percentage_notified)

\* line 77
proportion_contacts_reached_compliant_of(row) ==
    RMul(proportion_contacts_reached_of(row),
         row.compliance_with_contact_isolation)

\* line 89
contact_isolation_success_of(row, adherence_contact_isolation_impact) ==
    RMul(proportion_contacts_reached_compliant_of(row),
         adherence_contact_isolation_impact)

\* (faulty variant) the intersection is not deducted
overall_success_without_intersection(symptom_isolation_success, contact_isolation_success, symptom_and_contact_success) ==
    RAdd(symptom_isolation_success, contact_isolation_success)

\* lines 109-111
overall_success_of(symptom_isolation_success, contact_isolation_success, symptom_and_contact_success) ==
    RSub(RAdd(symptom_isolation_success, contact_isolation_success),
         symptom_and_contact_success)

\* line 117
marginal_impact_of(overall_success, symptom_isolation_success) ==
    RSub(overall_success, symptom_isolation_success)

\* lines 125-139, given the six quantities the record is assembled from
contributions_dict_of(row, adherence_symptom_isolation_impact, adherence_contact_isolation_impact, symptom_isolation_success, contact_isolation_success, symptom_and_contact_success, overall_success) ==
    [primary_tested |-> primary_tested_of(row),
     adherence_symptom_isolation |-> adherence_symptom_isolation_of(row),
     adherence_symptom_isolation_impact |-> adherence_symptom_isolation_impact,
     symptom_isolation_success |-> symptom_isolation_success,
     proportion_contacts_reached |-> proportion_contacts_reached_of(row),
     proportion_contacts_reached_compliant |->
         proportion_contacts_reached_compliant_of(row),
     adherence_contact_isolation_impact |-> adherence_contact_isolation_impact,
     contact_isolation_success |-> contact_isolation_success,
     transmission_pre_contact |-> RSub(One, adherence_contact_isolation_impact),
     transmission_occuring_pre_symptom |->
         RSub(One, adherence_symptom_isolation_impact),
     transmission_averted |-> overall_success,
     marginal_impact |-> marginal_impact_of(overall_success,
                                            symptom_isolation_success),
     symptom_and_contact_success |-> symptom_and_contact_success]

\* lines 104-142, given the three successes
tt_record(row, asii, acii, sis, cis, call) ==
    [ret |-> contributions_dict_of(row, asii, acii, sis, cis, call.ret,
                 overall_success_of(sis, cis, call.ret)),
     heap |-> call.heap,
     conditional_contact_impact |-> call.conditional_contact_impact]

\* lines 92-101: the intersection term is computed on copies (c) of the
\* secondary, serial-interval and contact frames
tt_intersection(row, asii, acii, sis, c) ==
    tt_record(row, asii, acii, sis, contact_isolation_success_of(row, acii),
        get_symptom_and_contact_success(c.heap, sis, row.symptomatic_rate,
            row.symptomatic_ascertainment_rate,
            row.compliance_with_contact_isolation, row.percentage_notified,
            c.refs[1], c.refs[2], c.refs[3]))

\* line 82: the contact impact is computed on copies (c) of the tertiary and
\* contact frames
tt_contact(row, r_serial, r_secondary, r_contact, asii, c) ==
    tt_intersection(row, asii,
        get_contact_isolation_impact(c.heap[c.refs[1]], c.heap[c.refs[2]]),
        symptom_isolation_success_of(row, asii),
        df_copies(c.heap, <<r_secondary, r_serial, r_contact>>))

\* row: the six scenario parameters; r_*: references to the four DataFrames.
\* Returns the record and the heap the call leaves behind.
TT_model_rum(h, row, r_serial, r_secondary, r_tertiary, r_contact) ==
    tt_contact(row, r_serial, r_secondary, r_contact,
        adherence_symptom_isolation_impact_of(h[r_secondary]),
        df_copies(h, <<r_tertiary, r_contact>>))

-----------------------------------------------------------------------------
(* rum_model/parameters.py: the bundle *)

None == "None"

\* lines 227-246: the dict holds copies of the five frames, allocated in the
\* order the code stores them.  An option other than 'he' and 'ashcroft'
\* makes get_symptom_to_onward_vector raise, and no bundle is returned.
bundle_of(infectiousness_option, e2e_df, target_e2e_df, symptoms_to_secondary, symptoms_to_symptoms) ==
    IF Raised(symptoms_to_secondary) THEN symptoms_to_secondary
    ELSE [heap |-> <<e2e_df, target_e2e_df, symptoms_to_secondary,
                     symptoms_to_symptoms,
                     get_time_to_tertiary_infection(symptoms_to_secondary,
                                                    symptoms_to_symptoms)>>,
          time_distributions_dict |->
              [infectiousness_option |-> infectiousness_option,
               total_time_to_contact |-> 1,
               target_total_time_to_contact |-> 2,
               secondary_symptoms_to_tertiary |-> 3,
               serial_interval |-> 4,
               time_to_tertiary_infection |-> 5]]

\* lines 225-238, given the padded frames
epi_distributions(infectiousness_option, e2e_df, target_e2e_df, delay_bound) ==
    bundle_of(infectiousness_option, e2e_df, target_e2e_df,
        get_symptom_to_onward_vector(delay_bound, infectiousness_option),
        get_serial_interval(delay_bound))

\* lines 220-225: [target_e2e_df, e2e_df] = padded
padded_distributions(infectiousness_option, padded) ==
    epi_distributions(infectiousness_option, padded[2], padded[1],
                      SeqMax(padded[2].delay))

calculate_time_distributions(config_settings) ==
    padded_distributions(config_settings.infectiousness_option,
        pad_with_zeros(
            <<process_TT_e2e_file(config_settings.target_total_time_to_contact_file),
              process_TT_e2e_file(config_settings.total_time_to_contact_file)>>,
            MinDelayBound))

BundleNames == {"total_time_to_contact", "target_total_time_to_contact",
                "secondary_symptoms_to_tertiary", "serial_interval",
                "time_to_tertiary_infection"}

-----------------------------------------------------------------------------
(* Inputs *)

\* scenario parameters
Probs == {Zero, Half, One}

ParamNames == {"symptomatic_ascertainment_rate", "symptomatic_rate",
               "percentage_notified", "compliance_with_symptom_isolation_test",
               "compliance_with_symptom_isolation_no_test",
               "compliance_with_contact_isolation"}

Quarter == <<1, 4>>
ThreeQuarters == <<3, 4>>

\* every combination of the boundary values and 1/2, and every combination
\* of two values strictly inside (0, 1)
ScenarioParameters == [ParamNames -> Probs] \cup
                      [ParamNames -> {Quarter, ThreeQuarters}]

Distributions == {"October Distribution", "Target Distribution"}

\* the interpolated turnaround tables: consecutive hours lo..hi inside the
\* minimum half width or reaching beyond it on either side, with rising or
\* falling frequencies
FileRanges == {<<-1, 1>>, <<-MaxExtent, 1>>, <<0, MaxExtent>>}

TurnaroundFiles ==
    {[delay |-> arange(r[1], r[2] + 1),
      freq_new |-> Tuple([i \in 1..(r[2] - r[1] + 1) |->
                       IF rising THEN i - 1 ELSE r[2] - r[1] + 2 - i])] :
        r \in FileRanges, rising \in BOOLEAN}

Options == {"he", "ashcroft", "hybrid"}

Configs == [infectiousness_option : Options,
            total_time_to_contact_file : TurnaroundFiles,
            target_total_time_to_contact_file : TurnaroundFiles]

\* rows of the scenarios files of run.main
AllEqual(p) == [n \in ParamNames |-> p]

ThreeHalves == <<3, 2>>

\* the scenarios file is read as it is (run.py lines 62, 77-82): a row may
\* hold a value outside [0, 1]
MainRows == {[parameters |-> AllEqual(Half), Distribution |-> d] :
                d \in Distributions}
            \cup {[parameters |-> AllEqual(One),
                   Distribution |-> "October Distribution"]}
            \cup {[parameters |->
                       [AllEqual(Half) EXCEPT !.symptomatic_rate = ThreeHalves],
                   Distribution |-> "October Distribution"]}

RECURSIVE SeqsUpTo(_, _)
SeqsUpTo(S, n) ==
    IF n = 0 THEN {<<>>}
    ELSE LET shorter == SeqsUpTo(S, n - 1)
         IN shorter \cup {Append(q, x) : q \in shorter, x \in S}

ScenarioFiles == SeqsUpTo(MainRows, MaxScenarios)

-----------------------------------------------------------------------------
(* run.py: main *)

Init ==
    /\ pc = "start"
    /\ config \in Configs
    /\ scenarios_df \in ScenarioFiles
    /\ heap = <<>>
    /\ time_distributions_dict = None
    /\ built = None
    /\ index = 0
    /\ output_df = <<>>
    /\ args = None
    /\ ret = None

\* run.py line 66: the bundle is computed once, before the loop
StoreBundle(r) ==
    IF Raised(r)
    THEN /\ pc' = "error"
         /\ UNCHANGED <<heap, time_distributions_dict, built>>
    ELSE /\ pc' = "loop"
         /\ heap' = r.heap
         /\ time_distributions_dict' = r.time_distributions_dict
         /\ built' = r.heap

CalculateTimeDistributions ==
    /\ pc = "start"
    /\ StoreBundle(calculate_time_distributions(config))
    /\ UNCHANGED <<config, scenarios_df, index, output_df, args, ret>>

\* run.py lines 121-125: TT_model_rum is called on copies (c) of the four
\* frames.  The objects allocated during the iteration are unreachable after
\* it: only the part of the heap that existed before (n objects) is kept.
iteration_result(n, call) ==
    [output |-> call.ret, heap |-> SubSeq(call.heap, 1, n)]

iteration_call(n, row, c) ==
    iteration_result(n,
        TT_model_rum(c.heap, row.parameters,
                     c.refs[1], c.refs[2], c.refs[3], c.refs[4]))

\* run.py lines 87-97: the contact frame the row's Distribution selects
contact_ref(dict, row) ==
    IF row.Distribution = "October Distribution"
    THEN dict.total_time_to_contact
    ELSE dict.target_total_time_to_contact

\* one iteration of the loop over scenarios_df (run.py lines 74-133)
scenario_iteration(h, dict, row) ==
    iteration_call(Len(h), row,
        df_copies(h, <<dict.serial_interval, dict.secondary_symptoms_to_tertiary,
                       dict.time_to_tertiary_infection, contact_ref(dict, row)>>))

AppendOutput(row, it) ==
    /\ heap' = it.heap
    /\ output_df' = Append(output_df,
                           [parameter_dict |-> row, output |-> it.output])

RunScenario ==
    /\ pc = "loop"
    /\ index < Len(scenarios_df)
    /\ AppendOutput(scenarios_df[index + 1],
           scenario_iteration(heap, time_distributions_dict,
                              scenarios_df[index + 1]))
    /\ index' = index + 1
    /\ UNCHANGED <<pc, config, scenarios_df, time_distributions_dict, built,
                   args, ret>>

\* run.py lines 135-138: the table is written and returned
SaveOutput ==
    /\ pc = "loop"
    /\ index = Len(scenarios_df)
    /\ pc' = "done"
    /\ UNCHANGED <<config, scenarios_df, heap, time_distributions_dict, built,
                   index, output_df, args, ret>>

Next == CalculateTimeDistributions \/ RunScenario \/ SaveOutput

Spec == Init /\ [][Next]_vars

-----------------------------------------------------------------------------
(* TT_model_rum called on its own *)

\* a distribution on the axis -B..B with half of its mass at each of d1 and
\* d2 (all of it at d1 when d1 = d2)
Mix(B, d1, d2) ==
    LET delay == arange(-B, B + 1)
    IN DataFrame(delay,
           Column(Tuple([i \in 1..Len(delay) |->
                      (IF delay[i] = d1 THEN 1 ELSE 0)
                      + (IF delay[i] = d2 THEN 1 ELSE 0)]), 2))

\* secondary-symptoms-to-tertiary: before onset only, after onset only, both
SecondaryInputs ==
    {Mix(MinDelayBound, d[1], d[2]) :
        d \in {<<-1, -1>>, <<1, 1>>, <<-1, 1>>, <<-MinDelayBound, 0>>,
               <<0, MinDelayBound>>, <<-1, MinDelayBound>>}}

\* serial interval: positive delays, as the gamma density
SerialInputs ==
    {Mix(MinDelayBound, d[1], d[2]) :
        d \in {<<1, 1>>, <<1, MinDelayBound>>, <<MinDelayBound, MinDelayBound>>}}

ContactInputs ==
    {Mix(MinDelayBound, d[1], d[2]) :
        d \in {<<0, 0>>, <<-1, 1>>, <<1, MinDelayBound>>}}

\* the four DataFrames of a call: time_to_tertiary_infection is derived from
\* the other two as calculate_time_distributions derives it
ModelHeaps ==
    {<<ser, sec, get_time_to_tertiary_infection(sec, ser), con>> :
        ser \in SerialInputs, sec \in SecondaryInputs, con \in ContactInputs}

InitModel ==
    /\ pc = "call"
    /\ config = None
    /\ scenarios_df = <<>>
    /\ heap \in ModelHeaps
    /\ time_distributions_dict = None
    /\ built = None
    /\ index = 0
    /\ output_df = <<>>
    /\ args = None
    /\ ret = None

StoreReturn(row, call) ==
    /\ args' = row
    /\ ret' = [output |-> call.ret,
               conditional_contact_impact |-> call.conditional_contact_impact]
    /\ heap' = SubSeq(call.heap, 1, Len(heap))

TTModelCall ==
    /\ pc = "call"
    /\ \E row \in ScenarioParameters :
          StoreReturn(row, TT_model_rum(heap, row, 1, 2, 3, 4))
    /\ pc' = "return"
    /\ UNCHANGED <<config, scenarios_df, time_distributions_dict, built, index,
                   output_df>>

NextModel == TTModelCall

SpecModel == InitModel /\ [][NextModel]_vars

-----------------------------------------------------------------------------
(* The functions of the convolution engine and the aligner called on their
   own *)

Axis == arange(-MinDelayBound, MinDelayBound + 1)

AxisDelays == -MinDelayBound..MinDelayBound

MixInputs == {Mix(MinDelayBound, d1, d2) : d1, d2 \in AxisDelays}

\* frames on a longer axis and on an axis of the same length with other
\* bounds
OffAxisInputs ==
    {Mix(MaxExtent, 1, 1), Mix(MaxExtent, -1, MaxExtent),
     DataFrame(arange(1 - MinDelayBound, MinDelayBound + 2),
               Mix(MinDelayBound, 0, 1).frequency)}

\* pairs of frames whose delay axes differ
MismatchedPairs ==
    {p \in (OffAxisInputs \cup {Mix(MinDelayBound, 1, 1),
                                Mix(MinDelayBound, -1, 2)})
            \X (OffAxisInputs \cup {Mix(MinDelayBound, 1, 1),
                                   Mix(MinDelayBound, -1, 2)}) :
        p[1].delay # p[2].delay}

EngineFunctions ==
    {"get_contact_isolation_impact", "get_time_to_tertiary_infection"}

FnCalls ==
    {[fn |-> f, a |-> a, b |-> b] : f \in EngineFunctions, a, b \in MixInputs}
    \cup
    {[fn |-> f, a |-> p[1], b |-> p[2]] :
        f \in EngineFunctions, p \in MismatchedPairs}
    \cup
    {[fn |-> "np.convolve", a |-> a, b |-> b] : a, b \in MixInputs}
    \cup
    {[fn |-> "get_symptom_to_onward_vector", delay_bound |-> B, option |-> o] :
        B \in {MinDelayBound, MaxExtent}, o \in Options}
    \cup
    {[fn |-> "pad_with_zeros",
      df_list |-> <<process_TT_e2e_file(f1), process_TT_e2e_file(f2)>>,
      min_delay_bound |-> MinDelayBound,
      padded |-> <<>>,
      again |-> FALSE] : f1, f2 \in TurnaroundFiles}

InitFn ==
    /\ pc = "call"
    /\ config = None
    /\ scenarios_df = <<>>
    /\ heap = <<>>
    /\ time_distributions_dict = None
    /\ built = None
    /\ index = 0
    /\ output_df = <<>>
    /\ args \in FnCalls
    /\ ret = None

\* where a call that gave x continues: at its return or at the raise
pc_after(x) == IF Raised(x) THEN "raise" ELSE "return"

CallImpact ==
    /\ pc = "call"
    /\ args.fn = "get_contact_isolation_impact"
    /\ ret' = get_contact_isolation_impact(args.a, args.b)
    /\ pc' = pc_after(contact_diff_df(args.a, args.b))
    /\ UNCHANGED <<config, scenarios_df, heap, time_distributions_dict, built,
                   index, output_df, args>>

CallTertiary ==
    /\ pc = "call"
    /\ args.fn = "get_time_to_tertiary_infection"
    /\ ret' = get_time_to_tertiary_infection(args.a, args.b)
    /\ pc' = pc_after(get_time_to_tertiary_infection(args.a, args.b))
    /\ UNCHANGED <<config, scenarios_df, heap, time_distributions_dict, built,
                   index, output_df, args>>

\* np.convolve(a['frequency'], b['frequency'], 'same') as the engine calls it
\* (parameters.py lines 278 and 309)
CallConvolve ==
    /\ pc = "call"
    /\ args.fn = "np.convolve"
    /\ ret' = np_convolve_same(args.a.frequency, args.b.frequency)
    /\ pc' = "return"
    /\ UNCHANGED <<config, scenarios_df, heap, time_distributions_dict, built,
                   index, output_df, args>>

CallSymptomToOnward ==
    /\ pc = "call"
    /\ args.fn = "get_symptom_to_onward_vector"
    /\ ret' = get_symptom_to_onward_vector(args.delay_bound, args.option)
    /\ pc' = pc_after(get_symptom_to_onward_vector(args.delay_bound,
                                                   args.option))
    /\ UNCHANGED <<config, scenarios_df, heap, time_distributions_dict, built,
                   index, output_df, args>>

CallPad ==
    /\ pc = "call"
    /\ args.fn = "pad_with_zeros"
    /\ ret' = pad_with_zeros(args.df_list, args.min_delay_bound)
    /\ pc' = "return"
    /\ UNCHANGED <<config, scenarios_df, heap, time_distributions_dict, built,
                   index, output_df, args>>

\* pad_with_zeros applied to the list it returned
CallPadAgain ==
    /\ pc = "return"
    /\ args.fn = "pad_with_zeros"
    /\ ~args.again
    /\ args' = [args EXCEPT !.padded = ret, !.again = TRUE]
    /\ ret' = pad_with_zeros(ret, args.min_delay_bound)
    /\ UNCHANGED <<pc, config, scenarios_df, heap, time_distributions_dict,
                   built, index, output_df>>

NextFn ==
    \/ CallImpact
    \/ CallTertiary
    \/ CallConvolve
    \/ CallSymptomToOnward
    \/ CallPad
    \/ CallPadAgain

SpecFn == InitFn /\ [][NextFn]_vars

-----------------------------------------------------------------------------
(* Claims *)

\* equality of two floats: false when either is NaN
FEq(x, y) == ~IsNaN(x) /\ ~IsNaN(y) /\ x = y

BundleBuilt == pc \in {"loop", "done"}

BundleFrame(name) == heap[time_distributions_dict[name]]

\* the mass of df at delays below 0
NegativeMass(df) ==
    pd_sum_where(df.frequency,
        Tuple([i \in 1..Len(df.delay) |-> df.delay[i] < 0]))

\* C1: after any number of scenario evaluations of run.main, each of the five
\* frames of the bundle has the delays and frequencies it was built with.
C1_BundleUnchanged ==
    BundleBuilt =>
        \A name \in BundleNames :
            BundleFrame(name) = built[time_distributions_dict[name]]

\* two scenarios have run on a bundle whose secondary frame has mass before
\* onset, which step 8 removes from its working copy
C1_Witness ==
    /\ pc = "loop"
    /\ index = 2
    /\ RLt(Zero, NegativeMass(BundleFrame("secondary_symptoms_to_tertiary")))

Returned == pc = "return"

\* C2: in the record TT_model_rum returns, transmission_averted is
\* symptom_isolation_success + contact_isolation_success -
\* symptom_and_contact_success and marginal_impact is transmission_averted -
\* symptom_isolation_success, on the record's own values.
C2_InclusionExclusion ==
    Returned =>
        /\ FEq(ret.output.transmission_averted,
               RSub(RAdd(ret.output.symptom_isolation_success,
                         ret.output.contact_isolation_success),
                    ret.output.symptom_and_contact_success))
        /\ FEq(ret.output.marginal_impact,
               RSub(ret.output.transmission_averted,
                    ret.output.symptom_isolation_success))

\* a record whose three terms are positive and differ
C2_Witness ==
    /\ Returned
    /\ RLt(Zero, ret.output.symptom_and_contact_success)
    /\ RLt(ret.output.symptom_and_contact_success,
           ret.output.contact_isolation_success)
    /\ RLt(ret.output.contact_isolation_success,
           ret.output.symptom_isolation_success)

\* C3: with percentage_notified = 0 the record has
\* proportion_contacts_reached = proportion_contacts_reached_compliant =
\* contact_isolation_success = symptom_and_contact_success = 0,
\* transmission_averted = symptom_isolation_success and marginal_impact = 0.
C3_NobodyNotified ==
    (Returned /\ args.percentage_notified = Zero) =>
        /\ FEq(ret.output.proportion_contacts_reached, Zero)
        /\ FEq(ret.output.proportion_contacts_reached_compliant, Zero)
        /\ FEq(ret.output.contact_isolation_success, Zero)
        /\ FEq(ret.output.symptom_and_contact_success, Zero)
        /\ FEq(ret.output.transmission_averted,
               ret.output.symptom_isolation_success)
        /\ FEq(ret.output.marginal_impact, Zero)

\* nobody is notified although cases are tested, contacts would comply, the
\* timing would let contact isolation work and symptom isolation succeeds
C3_Witness ==
    /\ Returned
    /\ args.percentage_notified = Zero
    /\ RLt(Zero, ret.output.primary_tested)
    /\ RLt(Zero, args.compliance_with_contact_isolation)
    /\ RLt(Zero, ret.output.adherence_contact_isolation_impact)
    /\ RLt(Zero, ret.conditional_contact_impact)
    /\ RLt(Zero, ret.output.symptom_isolation_success)

\* the record for the same frames and parameters except
\* compliance_with_contact_isolation = c
WithCompliance(c) ==
    TT_model_rum(heap,
        [args EXCEPT !.compliance_with_contact_isolation = c], 1, 2, 3, 4).ret

\* C4: of two scenarios on the same bundle that differ only in
\* compliance_with_contact_isolation, the one with the larger compliance has
\* contact_isolation_success and transmission_averted no smaller.
C4_MonotoneInCompliance ==
    Returned =>
        \A c \in Probs \cup {Quarter, ThreeQuarters} :
            RLt(args.compliance_with_contact_isolation, c) =>
                LET other == WithCompliance(c)
                IN /\ RLeq(ret.output.contact_isolation_success,
                           other.contact_isolation_success)
                   /\ RLeq(ret.output.transmission_averted,
                           other.transmission_averted)

\* raising the compliance from 1/2 to 1 strictly raises both
C4_Witness ==
    /\ Returned
    /\ args.compliance_with_contact_isolation = Half
    /\ RLt(ret.output.contact_isolation_success,
           WithCompliance(One).contact_isolation_success)
    /\ RLt(ret.output.transmission_averted,
           WithCompliance(One).transmission_averted)

StrictlyInside(x) == RLt(Zero, x) /\ RLt(x, One)

\* all six parameters strictly inside (0, 1) and the three probabilities
\* derived from the timing distributions strictly positive
C5_Premise ==
    /\ Returned
    /\ \A n \in ParamNames : StrictlyInside(args[n])
    /\ RLt(Zero, ret.output.adherence_symptom_isolation_impact)
    /\ RLt(Zero, ret.output.adherence_contact_isolation_impact)
    /\ RLt(Zero, ret.conditional_contact_impact)

\* C5: with the six parameters strictly inside (0, 1) and the timing-derived
\* impact probabilities (symptom, contact, and contact given symptom
\* isolation) strictly positive, symptom_and_contact_success is strictly
\* between 0 and contact_isolation_success, and transmission_averted strictly
\* between symptom_isolation_success and symptom_isolation_success +
\* contact_isolation_success.
C5_StrictBounds ==
    C5_Premise =>
        /\ RLt(Zero, ret.output.symptom_and_contact_success)
        /\ RLt(ret.output.symptom_and_contact_success,
               ret.output.contact_isolation_success)
        /\ RLt(ret.output.symptom_isolation_success,
               ret.output.transmission_averted)
        /\ RLt(ret.output.transmission_averted,
               RAdd(ret.output.symptom_isolation_success,
                    ret.output.contact_isolation_success))

\* the premise holds with parameters that are not all equal
C5_Witness ==
    /\ C5_Premise
    /\ args.symptomatic_rate = Quarter
    /\ args.compliance_with_contact_isolation = ThreeQuarters

\* get_contact_isolation_impact has returned for two frames on the axis
\* -B..B
ImpactReturned ==
    /\ pc = "return"
    /\ args.fn = "get_contact_isolation_impact"
    /\ args.a.delay = Axis
    /\ args.b.delay = Axis

\* the sum of the floats s[1], ..., s[n]
RECURSIVE RSumTo(_, _)
RSumTo(s, n) == IF n = 0 THEN Zero ELSE RAdd(s[n], RSumTo(s, n - 1))

\* P(A = B) for independent delays A ~ a and B ~ b: the sum over the delays d
\* of a(d) * b(d)
ProbEqual(a, b) ==
    RSumTo([i \in 1..Len(a.delay) |->
               RMul(FreqAt(a, a.delay[i]), FreqAt(b, a.delay[i]))],
           Len(a.delay))

\* the probability of the pairs (A, B) whose difference A - B is in lo..hi
DifferenceMass(a, b, lo, hi) ==
    RSumTo([i \in 1..Len(a.delay) |->
               RSumTo([j \in 1..Len(b.delay) |->
                          IF /\ lo <= a.delay[i] - b.delay[j]
                             /\ a.delay[i] - b.delay[j] <= hi
                          THEN RMul(ColAt(a.frequency, i), ColAt(b.frequency, j))
                          ELSE Zero],
                      Len(b.delay))],
           Len(a.delay))

\* C6: for two PMFs a and b on the axis -B..B,
\* get_contact_isolation_impact(a, b) + get_contact_isolation_impact(b, a)
\* + P(A = B) = 1.
C6_ImpactsAndTiesSumToOne ==
    ImpactReturned =>
        FEq(RAdd(RAdd(ret, get_contact_isolation_impact(args.b, args.a)),
                 ProbEqual(args.a, args.b)),
            One)

\* C7: get_contact_isolation_impact(a, b) is the mass of the difference
\* distribution A - B at the delays strictly greater than 0: the probability
\* of the pairs with A - B > 0, whatever the size of the difference (on the
\* axis -B..B the difference is at most 2B).
C7_MassOfPositiveDifference ==
    ImpactReturned =>
        FEq(ret, DifferenceMass(args.a, args.b, 1, 2 * MinDelayBound))

\* the half width of the bundle's axis: the delay_bound the builder is
\* called with (parameters.py line 225)
BundleBound == SeqMax(BundleFrame("total_time_to_contact").delay)

\* the mass the 'he' cut removes on the axis -B..B
HeCutMass(B) ==
    pd_sum_where(he_difference(get_serial_interval(B),
                               get_incubation_period(B)).frequency,
        Tuple([i \in 1..(2 * B + 1) |-> i - 1 - B < -HeCut]))

SumsToOne(df) == FEq(TotalFrequency(df), One)

BuilderSumsToOne(B) ==
    /\ SumsToOne(get_incubation_period(B))
    /\ SumsToOne(get_serial_interval(B))
    /\ SumsToOne(get_symptom_to_onward_vector(B, "he"))
    /\ SumsToOne(get_symptom_to_onward_vector(B, "ashcroft"))

\* C8: for the delay_bound the program calls the builder with, the incubation
\* period, the serial interval and the symptom-to-onward vector of either
\* option (the 'he' one after its cut) sum to 1; so do the two padded
\* turnaround frames and the frames stored in the bundle under
\* serial_interval and secondary_symptoms_to_tertiary; and so does the
\* secondary frame after the delay < 0 cut of get_symptom_and_contact_success.
C8_FrequenciesSumToOne ==
    BundleBuilt =>
        /\ BuilderSumsToOne(BundleBound)
        /\ SumsToOne(BundleFrame("total_time_to_contact"))
        /\ SumsToOne(BundleFrame("target_total_time_to_contact"))
        /\ SumsToOne(BundleFrame("serial_interval"))
        /\ SumsToOne(BundleFrame("secondary_symptoms_to_tertiary"))
        /\ SumsToOne(zero_below_and_renormalise(
                         BundleFrame("secondary_symptoms_to_tertiary"), 0))

\* a bundle of the 'he' option on an axis wider than the minimum, where both
\* cuts remove mass, after a scenario has applied the delay < 0 cut
C8_Witness ==
    /\ pc = "loop"
    /\ index >= 1
    /\ time_distributions_dict.infectiousness_option = "he"
    /\ BundleBound > MinDelayBound
    /\ RLt(Zero, HeCutMass(BundleBound))
    /\ RLt(Zero, NegativeMass(BundleFrame("secondary_symptoms_to_tertiary")))

\* the delays of the two processed turnaround tables
ObservedDelays ==
    UNION {{f.delay[i] : i \in 1..Len(f.delay)} :
              f \in {process_TT_e2e_file(config.total_time_to_contact_file),
                     process_TT_e2e_file(
                         config.target_total_time_to_contact_file)}}

\* the largest absolute delay observed in either table
ObservedExtent ==
    CHOOSE m \in {Abs(d) : d \in ObservedDelays} :
        \A d \in ObservedDelays : Abs(d) <= m

ExpectedBound == Max2(ObservedExtent, MinDelayBound)

\* the consecutive integers -B..B in increasing order
IsAxis(delay, B) ==
    /\ Len(delay) = 2 * B + 1
    /\ \A k \in 1..Len(delay) : delay[k] = k - 1 - B

\* padded has the frequency of df at every delay df has and 0 elsewhere
KeepsFrequencies(padded, df) ==
    /\ \A i \in 1..Len(df.delay) :
          \E k \in 1..Len(padded.delay) :
             /\ padded.delay[k] = df.delay[i]
             /\ FEq(ColAt(padded.frequency, k), ColAt(df.frequency, i))
    /\ \A k \in 1..Len(padded.delay) :
          (\A i \in 1..Len(df.delay) : df.delay[i] # padded.delay[k])
              => FEq(ColAt(padded.frequency, k), Zero)

\* C9: each of the five frames of the bundle has the delay axis -B..B in
\* increasing order, B the larger of the largest absolute delay of the two
\* turnaround tables and the minimum half width; the two padded turnaround
\* frames keep each table's frequency at the table's delays and have
\* frequency 0 at every other delay.
C9_CommonAxis ==
    BundleBuilt =>
        /\ \A name \in BundleNames :
              IsAxis(BundleFrame(name).delay, ExpectedBound)
        /\ KeepsFrequencies(BundleFrame("total_time_to_contact"),
               process_TT_e2e_file(config.total_time_to_contact_file))
        /\ KeepsFrequencies(BundleFrame("target_total_time_to_contact"),
               process_TT_e2e_file(config.target_total_time_to_contact_file))

\* one table reaches below -960 (in model steps, below the minimum half
\* width) and sets the bound; the other lies inside it and is padded on both
\* sides
C9_Witness ==
    /\ BundleBuilt
    /\ ExpectedBound = MaxExtent
    /\ SeqMin(config.total_time_to_contact_file.delay) = -MaxExtent
    /\ SeqMax(config.total_time_to_contact_file.delay) < MinDelayBound
    /\ SeqMin(config.target_total_time_to_contact_file.delay) = -1
    /\ SeqMax(config.target_total_time_to_contact_file.delay) = 1

PadAgainReturned ==
    pc = "return" /\ args.fn = "pad_with_zeros" /\ args.again

\* C10: pad_with_zeros applied, with the same min_delay_bound, to the list
\* it returned gives a list of the same length whose frames have, in the
\* same order, the same delay axis and the same frequency at every delay.
C10_PadIdempotent ==
    PadAgainReturned =>
        /\ Len(ret) = Len(args.padded)
        /\ \A k \in 1..Len(ret) :
              /\ ret[k].delay = args.padded[k].delay
              /\ \A i \in 1..Len(ret[k].delay) :
                    FEq(ColAt(ret[k].frequency, i),
                        ColAt(args.padded[k].frequency, i))

\* the first call padded two tables of different extents, one of them
\* beyond the minimum half width
C10_Witness ==
    /\ PadAgainReturned
    /\ args.df_list[1].delay # args.df_list[2].delay
    /\ args.padded # args.df_list
    /\ Len(args.padded[1].delay) = 2 * MaxExtent + 1

ConvolveReturned == pc = "return" /\ args.fn = "np.convolve"

\* the columns x and y have the same length and the same value at each index
SameColumn(x, y) ==
    /\ ColLen(x) = ColLen(y)
    /\ \A i \in 1..ColLen(x) : FEq(ColAt(x, i), ColAt(y, i))

\* C11: for two frequency arrays a and b of the same length 2B+1, the
\* same-mode convolution of a with b is, element for element, the same-mode
\* convolution of b with a.
C11_ConvolveCommutes ==
    ConvolveReturned =>
        SameColumn(ret, np_convolve_same(args.b.frequency, args.a.frequency))

\* two different arrays whose convolution has mass and is not a palindrome
C11_Witness ==
    /\ ConvolveReturned
    /\ args.a # args.b
    /\ ColLen(args.a.frequency) = 2 * MinDelayBound + 1
    /\ RLt(Zero, pd_sum(ret))
    /\ ret # col_reverse(ret)

\* C12: get_symptom_to_onward_vector called with an option other than 'he'
\* and 'ashcroft' returns no PMF: it fails, with an error that identifies
\* the option it was given.
C12_UnknownOptionIsNamed ==
    (/\ pc \in {"return", "raise"}
     /\ args.fn = "get_symptom_to_onward_vector"
     /\ args.option \notin {"he", "ashcroft"}) =>
        /\ pc = "raise"
        /\ args.option \in ret.mentions

\* the secondary frame handed to TT_model_rum has no mass at delay >= 0: the
\* cut of step 8 leaves frequencies that sum to zero
NoMassFromOnset ==
    /\ SumsToOne(heap[2])
    /\ FEq(NegativeMass(heap[2]), One)

\* C13: when the secondary-symptoms-to-tertiary PMF has no mass at delay
\* >= 0, the evaluation of the scenario ends in an error: TT_model_rum
\* returns no result record (in particular none whose
\* symptom_and_contact_success, transmission_averted or marginal_impact is
\* NaN or zero).
C13_DegenerateIsAnError ==
    (Returned /\ NoMassFromOnset) => Raised(ret)

InUnitInterval(x) == RLeq(Zero, x) /\ RLeq(x, One)

\* C14: a scenario with one of its six parameters outside [0, 1] fails with
\* an error: no record of it is appended to the output table, so every row
\* of the table has its six parameters in [0, 1].
C14_OutOfRangeNotRecorded ==
    \A k \in 1..Len(output_df) :
        \A n \in ParamNames :
            InUnitInterval(output_df[k].parameter_dict.parameters[n])

\* a call of one of the two functions has ended, by a return or by a raise
EngineEnded == pc \in {"return", "raise"} /\ args.fn \in EngineFunctions

\* C15: get_time_to_tertiary_infection and get_contact_isolation_impact,
\* given two frames whose delay axes differ in length or in bounds, fail with
\* an error, whichever of the two is the shorter; they return no distribution
\* and no probability.
C15_MismatchedAxesFail ==
    (EngineEnded /\ args.a.delay # args.b.delay) => pc = "raise"

\* get_time_to_tertiary_infection has returned for two frames on the axis
\* -B..B
TertiaryReturned ==
    /\ pc = "return"
    /\ args.fn = "get_time_to_tertiary_infection"
    /\ args.a.delay = Axis
    /\ args.b.delay = Axis

\* C16: for two PMFs on the axis -B..B that each sum to 1, the frequencies
\* of the frame get_time_to_tertiary_infection returns sum to 1.
C16_TertiarySumsToOne ==
    (TertiaryReturned /\ SumsToOne(args.a) /\ SumsToOne(args.b)) =>
        SumsToOne(ret)

=============================================================================
